---- MODULE Spec2Model ----
(***************************************************************************)
(* InterfaceProducer (src/src/producers/interface_producer.py): the        *)
(* producer that publishes interface / notifier creation requests, keeps   *)
(* the lists of registered instances and fans exchange registrations out   *)
(* to them.  Every coroutine is cut at its awaited channel sends: a step   *)
(* runs the code up to and including the next send, where the task may be  *)
(* suspended and any other task may run.                                   *)
(***************************************************************************)
EXTENDS Integers, Sequences, FiniteSets, TLC

\* ------------------------------------------------------------------ bounds
\* calls of register_interface, register_notifier and register_exchange made
\* on the producer in one run
MaxCalls == 4

\* the largest risk override tried, in tenths
MaxRisk == 12

\* ------------------------------------------------------------ the universe
InterfaceOrder == << "i1", "i2" >>
NotifierOrder == << "n1", "n2", "n3" >>
InterfaceInstances == {InterfaceOrder[k] : k \in 1..Len(InterfaceOrder)}
NotifierInstances == {NotifierOrder[k] : k \in 1..Len(NotifierOrder)}
Instances == InterfaceInstances \cup NotifierInstances
None == "None"
Handles == 1..MaxCalls
Services == {"s1", "s2"}

\* interface_factory.get_available_interfaces(), in list order
interface_list ==
  << [name |-> "ic1", REQUIRED_SERVICES |-> {"s1"}, enabled |-> TRUE,
      enabled_in_backtesting |-> TRUE],
     [name |-> "ic2", REQUIRED_SERVICES |-> {"s2"}, enabled |-> TRUE,
      enabled_in_backtesting |-> FALSE] >>

\* notifier_factory.get_available_notifiers(), in list order
notifier_list ==
  << [name |-> "nc1", REQUIRED_SERVICES |-> {"s1"}],
     [name |-> "nc2", REQUIRED_SERVICES |-> {"s2"}] >>

ClassNames == {interface_list[k].name : k \in 1..Len(interface_list)}
                \cup {notifier_list[k].name : k \in 1..Len(notifier_list)}

\* the configurations a startup is run with: the bot configuration
\* (backtesting flag, enabled services, notification types enabled in the
\* config) and the tentacles setup configuration (activated tentacles)
StartupConfigs ==
  { [backtesting |-> FALSE, services |-> {"s1", "s2"},
     notification_types |-> {"nc1", "nc2"}, activated |-> ClassNames],
    [backtesting |-> FALSE, services |-> {"s1"},
     notification_types |-> {"nc1", "nc2"}, activated |-> ClassNames],
    [backtesting |-> TRUE, services |-> {"s1", "s2"},
     notification_types |-> {"nc1", "nc2"}, activated |-> ClassNames],
    [backtesting |-> FALSE, services |-> {"s1", "s2"},
     notification_types |-> {"nc2"}, activated |-> {"ic2", "nc1", "nc2"}] }

VARIABLES
  config,                     \* self.MEV.config and tentacles_setup_config
  interfaces,                 \* self.interfaces
  notifiers,                  \* self.notifiers
  to_create_notifiers_count,  \* self.to_create_notifiers_count
  exchange_manager_ids,       \* self.MEV.exchange_producer.exchange_manager_ids
  created,                    \* creation requests sent, per class name
  sent,                       \* exchange-registration messages sent
  flushes,                    \* process_pending_notifications invocations
  startPc, startIdx,          \* position of the start() coroutine
  errorLog,                   \* names logged by start_interfaces
  reg,                        \* the register_interface/register_notifier tasks
  bcast,                      \* the register_exchange tasks
  stopPc, stopped,            \* stop() and the interfaces it signalled
  calls, notifDone,           \* history: calls made, notifier calls returned
  earlyNotif, notifOverlap, anyOverlap,  \* history of the call pattern
  seenAt,                     \* history: handles seen when a call began
  candidate,                  \* a plugin class handed to the relevance tests
  relevance,                  \* what the relevance tests answered for it
  pc,                         \* position of start_MEV (src/src/cli.py)
  args,                       \* the parsed command line
  env,                        \* files and constants start_MEV finds
  is_first_startup,           \* config.is_config_file_empty_or_missing()
  loaded,                     \* config.is_loaded() of start_MEV's config
  profile,                    \* that config has a selected profile
  cfg,                        \* config.config: the configuration document
  stages,                     \* history: the calls start_MEV made, in order
  outcomes,                   \* history: how the community calls ended
  failed,                     \* the error start_MEV caught, if any
  exit_status,                \* the status given to os._exit, if any
  error_messages              \* history: messages its error handlers logged

producerVars ==
  << config, interfaces, notifiers, to_create_notifiers_count,
     exchange_manager_ids, created, sent, flushes, startPc, startIdx,
     errorLog, reg, bcast, stopPc, stopped,
     calls, notifDone, earlyNotif, notifOverlap, anyOverlap, seenAt >>

evalVars == << candidate, relevance >>

startupVars ==
  << pc, args, env, is_first_startup, loaded, profile, cfg, stages, outcomes,
     failed, exit_status, error_messages >>

vars == << producerVars, evalVars, startupVars >>

\* ----------------------------------------------------------------- helpers
Range(s) == {s[k] : k \in 1..Len(s)}

Occurrences(s, x) == Cardinality({k \in 1..Len(s) : s[k] = x})

NoDuplicates(s) == \A j, k \in 1..Len(s) : s[j] = s[k] => j = k

Min(S) == CHOOSE x \in S : \A y \in S : x <= y

\* instances are interchangeable: a new instance is the first unused one of
\* its pool, an instance registered before may register again
NextInstance(order, registered, instance) ==
  \E k \in 1..Len(order) :
    /\ order[k] = instance
    /\ \A j \in 1..(k - 1) : order[j] \in Range(registered)

IdleTask == [pc |-> "idle", idx |-> 0]

IdleBroadcast == [pc |-> "idle", targets |-> << >>, idx |-> 0]

\* ------------------------------------------------------------- eligibility
\* variant of _is_interface_relevant that asks for any required service, not
\* for all of them
_is_interface_relevant_any_service(interface_class, backtesting_enabled) ==
  /\ interface_class.enabled
  /\ interface_class.name \in config.activated
  /\ (interface_class.REQUIRED_SERVICES = {}
        \/ \E service \in interface_class.REQUIRED_SERVICES :
             service \in config.services)
  /\ (~backtesting_enabled
        \/ (backtesting_enabled /\ interface_class.enabled_in_backtesting))

_is_interface_relevant(interface_class, backtesting_enabled) ==
  /\ interface_class.enabled
  /\ interface_class.name \in config.activated
  /\ \A service \in interface_class.REQUIRED_SERVICES : service \in config.services
  /\ (~backtesting_enabled
        \/ (backtesting_enabled /\ interface_class.enabled_in_backtesting))

\* variant of _is_notifier_relevant without the backtesting test
_is_notifier_relevant_in_backtesting(notifier_class, backtesting_enabled) ==
  /\ notifier_class.name \in config.notification_types
  /\ notifier_class.name \in config.activated
  /\ \A service \in notifier_class.REQUIRED_SERVICES : service \in config.services

_is_notifier_relevant(notifier_class, backtesting_enabled) ==
  /\ notifier_class.name \in config.notification_types
  /\ notifier_class.name \in config.activated
  /\ \A service \in notifier_class.REQUIRED_SERVICES : service \in config.services
  /\ ~backtesting_enabled

\* index of the next relevant class after position k of the list, 0 if none
NextRelevantInterface(k) ==
  LET S == {j \in (k + 1)..Len(interface_list) :
              _is_interface_relevant(interface_list[j], config.backtesting)}
  IN IF S = {} THEN 0 ELSE Min(S)

NextRelevantNotifier(k) ==
  LET S == {j \in (k + 1)..Len(notifier_list) :
              _is_notifier_relevant(notifier_list[j], config.backtesting)}
  IN IF S = {} THEN 0 ELSE Min(S)

\* N: the number of eligible notifier descriptors of this startup
EligibleNotifiers ==
  Cardinality({j \in 1..Len(notifier_list) :
                 _is_notifier_relevant(notifier_list[j], config.backtesting)})

\* ------------------------------------------------------------------- Init
\* no relevance test made yet
NotEvaluated == [evaluated |-> FALSE, interface |-> FALSE, notifier |-> FALSE]

NoArgs ==
  [version |-> FALSE, encrypter |-> FALSE, backtesting |-> FALSE,
   simulate |-> FALSE, risk |-> << >>, update |-> FALSE,
   strategy_optimizer |-> FALSE]

NoEnv ==
  [tentacles_folder |-> FALSE, tentacles_config_file |-> FALSE,
   IS_CLOUD_ENV |-> FALSE, credentials |-> FALSE]

NoCfg ==
  [trader_enabled |-> FALSE, simulator_enabled |-> FALSE,
   backtesting_enabled |-> FALSE, risk |-> 5]

NoOutcomes == [login |-> "none", async_init_account |-> "none",
               get_startup_info |-> "none"]

\* the producer as constructed
InitProducer ==
  /\ interfaces = << >>
  /\ notifiers = << >>
  /\ to_create_notifiers_count = 0
  /\ exchange_manager_ids = << >>
  /\ created = [c \in ClassNames |-> 0]
  /\ sent = [via \in {"broadcast", "replay"} |->
               [inst \in Instances |-> [h \in Handles |-> 0]]]
  /\ flushes = << >>
  /\ startPc = "idle"
  /\ startIdx = 0
  /\ errorLog = {}
  /\ reg = [inst \in Instances |-> IdleTask]
  /\ bcast = [h \in Handles |-> IdleBroadcast]
  /\ stopPc = "idle"
  /\ stopped = {}
  /\ calls = 0
  /\ notifDone = 0
  /\ earlyNotif = FALSE
  /\ notifOverlap = FALSE
  /\ anyOverlap = FALSE
  /\ seenAt = [inst \in Instances |-> 0]

\* start_MEV not called yet
InitStartup ==
  /\ pc = "init"
  /\ args = NoArgs
  /\ env = NoEnv
  /\ is_first_startup = FALSE
  /\ loaded = FALSE
  /\ profile = FALSE
  /\ cfg = NoCfg
  /\ stages = << >>
  /\ outcomes = NoOutcomes
  /\ failed = "none"
  /\ exit_status = 0
  /\ error_messages = 0

Init ==
  /\ config \in StartupConfigs
  /\ InitProducer
  /\ candidate = interface_list[1]
  /\ relevance = NotEvaluated
  /\ InitStartup

\* ---------------------------------------------------------------- start()
StartFrame ==
  UNCHANGED << evalVars, startupVars, config, interfaces, notifiers, exchange_manager_ids, sent,
               flushes, reg, bcast, stopPc, stopped, calls, notifDone,
               earlyNotif, notifOverlap, anyOverlap, seenAt >>

\* start_interfaces up to its await of service_managers.start_interfaces
start_interfaces_call(count) ==
  /\ to_create_notifiers_count' = count
  /\ startPc' = "start_interfaces"
  /\ startIdx' = 0
  /\ UNCHANGED << created, errorLog >>

\* _create_notifiers from list position k on, up to the next awaited send
_create_notifiers(k, count) ==
  LET j == NextRelevantNotifier(k)
  IN IF j # 0
       THEN /\ created' = [created EXCEPT ![notifier_list[j].name] = @ + 1]
            /\ to_create_notifiers_count' = count
            /\ startPc' = "create_notifiers"
            /\ startIdx' = j
            /\ UNCHANGED errorLog
       ELSE start_interfaces_call(count)

\* _create_interfaces from list position k on, up to the next awaited send
_create_interfaces(k) ==
  LET j == NextRelevantInterface(k)
  IN IF j # 0
       THEN /\ created' = [created EXCEPT ![interface_list[j].name] = @ + 1]
            /\ startPc' = "create_interfaces"
            /\ startIdx' = j
            /\ UNCHANGED << to_create_notifiers_count, errorLog >>
       ELSE _create_notifiers(0, to_create_notifiers_count)

start ==
  /\ startPc = "idle"
  /\ _create_interfaces(0)
  /\ StartFrame

\* the interface creation send returned
_create_interface_if_relevant_resume ==
  /\ startPc = "create_interfaces"
  /\ _create_interfaces(startIdx)
  /\ StartFrame

\* variant of _create_notifier_class_if_relevant_resume that leaves the
\* counter as it is
_create_notifier_class_if_relevant_resume_uncounted ==
  /\ startPc = "create_notifiers"
  /\ _create_notifiers(startIdx, to_create_notifiers_count)
  /\ StartFrame

\* the notifier creation send returned: the counter is incremented after it
_create_notifier_class_if_relevant_resume ==
  /\ startPc = "create_notifiers"
  /\ _create_notifiers(startIdx, to_create_notifiers_count + 1)
  /\ StartFrame

\* creation requests start() has sent
PublishedRequests ==
  LET Published(names) == Cardinality({c \in names : created[c] > 0})
  IN Published(ClassNames)

\* variant of start_interfaces_resume that returns only when as many
\* instances have registered as requests were sent
start_interfaces_resume_when_registered ==
  /\ startPc = "start_interfaces"
  /\ Len(interfaces) + Len(notifiers) >= PublishedRequests
  /\ startPc' = "done"
  /\ UNCHANGED << to_create_notifiers_count, created, startIdx, errorLog >>
  /\ StartFrame

\* service_managers.start_interfaces returned the interfaces that started,
\* some of the list it was handed; to_start_interfaces is the live list
\* itself, read again after the await
start_interfaces_resume ==
  /\ startPc = "start_interfaces"
  /\ \E started_interfaces \in SUBSET (Range(interfaces)) :
       errorLog' = IF Cardinality(started_interfaces) # Len(interfaces)
                     THEN {i \in Range(interfaces) : i \notin started_interfaces}
                     ELSE errorLog
  /\ startPc' = "done"
  /\ UNCHANGED << to_create_notifiers_count, created, startIdx >>
  /\ StartFrame

\* ------------------------------------------ registrations and broadcasts
\* the exchange producer records a handle in exchange_manager_ids before it
\* calls register_exchange with it
exchange_manager_ids_append(ids, exchange_id) == Append(ids, exchange_id)

\* _register_exchange: one EXCHANGE_REGISTRATION message on the channel
_register_exchange(messages, via, to_notify_instance, exchange_id) ==
  [messages EXCEPT ![via][to_notify_instance][exchange_id] = @ + 1]

\* variants of the flush condition: a bound from above or from below in place
\* of the equality
all_notifiers_registered_upto(registered, count) == registered <= count

all_notifiers_registered_atleast(registered, count) == registered >= count

\* the condition under which register_notifier flushes pending notifications
all_notifiers_registered(registered, count) == registered = count

ActiveRegistrations == {inst \in Instances : reg[inst].pc # "idle"}

ActiveBroadcasts == {h \in Handles : bcast[h].pc = "broadcast"}

CallOverlaps == ActiveRegistrations # {} \/ ActiveBroadcasts # {}

\* variant of the iterator's end test that stops one handle early
ReplayExhausted_one_early(k) == k + 1 >= Len(exchange_manager_ids)

\* _register_existing_exchanges: the iterator over the live list
\* exchange_manager_ids stands at position k; true when it is exhausted
ReplayExhausted(k) == k >= Len(exchange_manager_ids)

\* ... and otherwise the next handle is sent and the task is suspended
_register_existing_exchanges(instance, k) ==
  /\ sent' = _register_exchange(sent, "replay", instance,
                                exchange_manager_ids[k + 1])
  /\ reg' = [reg EXCEPT ![instance] = [pc |-> "replay", idx |-> k + 1]]

\* the end of register_notifier, reached with the list notifs: a flush is
\* logged with the number of notifiers registered when it is invoked
register_notifier_end(notifs) ==
  /\ flushes' = IF all_notifiers_registered(Len(notifs), to_create_notifiers_count)
                  THEN Append(flushes, Len(notifs))
                  ELSE flushes
  /\ notifDone' = notifDone + 1

RegisterFrame ==
  UNCHANGED << evalVars, startupVars, config, to_create_notifiers_count, exchange_manager_ids,
               created, startPc, startIdx, errorLog, bcast, stopPc, stopped >>

\* variant of register_interface that appends whatever it is given
register_interface_with_none(instance) ==
  /\ calls < MaxCalls
  /\ calls' = calls + 1
  /\ IF instance = None
       THEN /\ interfaces' = Append(interfaces, instance)
            /\ UNCHANGED << sent, reg, seenAt, anyOverlap >>
       ELSE /\ reg[instance].pc = "idle"
            /\ NextInstance(InterfaceOrder, interfaces, instance)
            /\ interfaces' = Append(interfaces, instance)
            /\ seenAt' = [seenAt EXCEPT ![instance] = Len(exchange_manager_ids)]
            /\ anyOverlap' = (anyOverlap \/ CallOverlaps)
            /\ IF ReplayExhausted(0)
                 THEN UNCHANGED << sent, reg >>
                 ELSE _register_existing_exchanges(instance, 0)
  /\ UNCHANGED << notifiers, flushes, notifDone, earlyNotif, notifOverlap >>
  /\ RegisterFrame

\* register_interface(instance) up to its first awaited send
register_interface(instance) ==
  /\ calls < MaxCalls
  /\ calls' = calls + 1
  /\ IF instance = None
       THEN UNCHANGED << interfaces, sent, reg, seenAt, anyOverlap >>
       ELSE /\ reg[instance].pc = "idle"
            /\ NextInstance(InterfaceOrder, interfaces, instance)
            /\ interfaces' = Append(interfaces, instance)
            /\ seenAt' = [seenAt EXCEPT ![instance] = Len(exchange_manager_ids)]
            /\ anyOverlap' = (anyOverlap \/ CallOverlaps)
            /\ IF ReplayExhausted(0)
                 THEN UNCHANGED << sent, reg >>
                 ELSE _register_existing_exchanges(instance, 0)
  /\ UNCHANGED << notifiers, flushes, notifDone, earlyNotif, notifOverlap >>
  /\ RegisterFrame

register_interface_resume(instance) ==
  /\ instance \in InterfaceInstances
  /\ reg[instance].pc = "replay"
  /\ IF ReplayExhausted(reg[instance].idx)
       THEN /\ reg' = [reg EXCEPT ![instance] = IdleTask]
            /\ UNCHANGED sent
       ELSE _register_existing_exchanges(instance, reg[instance].idx)
  /\ UNCHANGED << interfaces, notifiers, flushes, calls, notifDone,
                  earlyNotif, notifOverlap, anyOverlap, seenAt >>
  /\ RegisterFrame

register_notifier(instance) ==
  /\ calls < MaxCalls
  /\ calls' = calls + 1
  /\ reg[instance].pc = "idle"
  /\ NextInstance(NotifierOrder, notifiers, instance)
  /\ notifiers' = Append(notifiers, instance)
  /\ seenAt' = [seenAt EXCEPT ![instance] = Len(exchange_manager_ids)]
  /\ anyOverlap' = (anyOverlap \/ CallOverlaps)
  /\ notifOverlap' = (notifOverlap
                        \/ ActiveRegistrations \cap NotifierInstances # {})
  /\ earlyNotif' = (earlyNotif \/ startPc \notin {"start_interfaces", "done"})
  /\ IF ReplayExhausted(0)
       THEN /\ register_notifier_end(notifiers')
            /\ UNCHANGED << sent, reg >>
       ELSE /\ _register_existing_exchanges(instance, 0)
            /\ UNCHANGED << flushes, notifDone >>
  /\ UNCHANGED interfaces
  /\ RegisterFrame

register_notifier_resume(instance) ==
  /\ instance \in NotifierInstances
  /\ reg[instance].pc = "replay"
  /\ IF ReplayExhausted(reg[instance].idx)
       THEN /\ reg' = [reg EXCEPT ![instance] = IdleTask]
            /\ register_notifier_end(notifiers)
            /\ UNCHANGED sent
       ELSE /\ _register_existing_exchanges(instance, reg[instance].idx)
            /\ UNCHANGED << flushes, notifDone >>
  /\ UNCHANGED << interfaces, notifiers, calls, earlyNotif, notifOverlap,
                  anyOverlap, seenAt >>
  /\ RegisterFrame

BroadcastFrame ==
  UNCHANGED << evalVars, startupVars, config, interfaces, notifiers, to_create_notifiers_count,
               created, flushes, startPc, startIdx, errorLog, reg, stopPc,
               stopped, notifDone, earlyNotif, notifOverlap, seenAt >>

\* the loop of register_exchange over its list self.interfaces +
\* self.notifiers, built when the call begins, from position k on
register_exchange_loop(exchange_id, targets, k) ==
  IF k < Len(targets)
    THEN /\ sent' = _register_exchange(sent, "broadcast", targets[k + 1],
                                       exchange_id)
         /\ bcast' = [bcast EXCEPT ![exchange_id] =
                        [pc |-> "broadcast", targets |-> targets, idx |-> k + 1]]
    ELSE /\ bcast' = [bcast EXCEPT ![exchange_id] =
                        [pc |-> "done", targets |-> << >>, idx |-> 0]]
         /\ UNCHANGED sent

register_exchange(exchange_id) ==
  /\ calls < MaxCalls
  /\ calls' = calls + 1
  /\ exchange_id = Len(exchange_manager_ids) + 1
  /\ exchange_manager_ids' =
       exchange_manager_ids_append(exchange_manager_ids, exchange_id)
  /\ anyOverlap' = (anyOverlap \/ CallOverlaps)
  /\ register_exchange_loop(exchange_id, interfaces \o notifiers, 0)
  /\ BroadcastFrame

register_exchange_resume(exchange_id) ==
  /\ bcast[exchange_id].pc = "broadcast"
  /\ register_exchange_loop(exchange_id, bcast[exchange_id].targets,
                            bcast[exchange_id].idx)
  /\ UNCHANGED << exchange_manager_ids, anyOverlap, calls >>
  /\ BroadcastFrame

\* ----------------------------------------------------------------- stop()
StopFrame ==
  UNCHANGED << evalVars, startupVars, config, interfaces, notifiers, to_create_notifiers_count,
               exchange_manager_ids, created, sent, flushes, startPc,
               startIdx, errorLog, reg, bcast, calls,
               notifDone, earlyNotif, notifOverlap, anyOverlap, seenAt >>

\* stop up to its await: service_managers.stop_interfaces(self.interfaces)
\* signals the interfaces of the list it is handed; the bot stops a
\* producer it has started
stop ==
  /\ stopPc = "idle"
  /\ startPc = "done"
  /\ stopped' = Range(interfaces)
  /\ stopPc' = "stopping"
  /\ StopFrame

stop_resume ==
  /\ stopPc = "stopping"
  /\ stopPc' = "done"
  /\ UNCHANGED stopped
  /\ StopFrame

\* ------------------------------------------------------------------- Next
Next ==
  \/ start
  \/ _create_interface_if_relevant_resume
  \/ _create_notifier_class_if_relevant_resume
  \/ start_interfaces_resume
  \/ \E instance \in InterfaceInstances \cup {None} : register_interface(instance)
  \/ \E instance \in InterfaceInstances : register_interface_resume(instance)
  \/ \E instance \in NotifierInstances : register_notifier(instance)
  \/ \E instance \in NotifierInstances : register_notifier_resume(instance)
  \/ \E exchange_id \in Handles : register_exchange(exchange_id)
  \/ \E exchange_id \in Handles : register_exchange_resume(exchange_id)
  \/ stop
  \/ stop_resume

Spec == Init /\ [][Next]_vars

\* the event loop resumes start() whenever the send or the call it awaits
\* has returned
start_resumed ==
  \/ _create_interface_if_relevant_resume
  \/ _create_notifier_class_if_relevant_resume
  \/ start_interfaces_resume

\* ---------------------------------------- the relevance tests, all inputs
NotifierNames == {notifier_list[k].name : k \in 1..Len(notifier_list)}

InterfaceNames == {interface_list[k].name : k \in 1..Len(interface_list)}

\* every bot and tentacles setup configuration over the services and classes
AllConfigs ==
  [backtesting : BOOLEAN, services : SUBSET Services,
   notification_types : SUBSET NotifierNames, activated : SUBSET ClassNames]

\* every plugin class over the services: its name, the services it requires
\* and its own flags
CandidateClasses ==
  [name : ClassNames, REQUIRED_SERVICES : SUBSET Services, enabled : BOOLEAN,
   enabled_in_backtesting : BOOLEAN]

InitEligibility ==
  /\ config \in AllConfigs
  /\ InitProducer
  /\ candidate = interface_list[1]
  /\ relevance = NotEvaluated
  /\ InitStartup

\* both relevance tests applied to one class, as start() applies them
relevance_tests ==
  /\ ~relevance.evaluated
  /\ \E class \in CandidateClasses :
       /\ candidate' = class
       /\ relevance' =
            [evaluated |-> TRUE,
             interface |-> _is_interface_relevant(class, config.backtesting),
             notifier |-> _is_notifier_relevant(class, config.backtesting)]
  /\ UNCHANGED << producerVars, startupVars >>

NextEligibility ==
  \/ relevance_tests
  \/ start
  \/ _create_interface_if_relevant_resume
  \/ _create_notifier_class_if_relevant_resume
  \/ start_interfaces_resume

SpecEligibility == InitEligibility /\ [][NextEligibility]_vars

\* start() and the plugins that call back, or do not, while it runs
NextStart ==
  \/ start
  \/ _create_interface_if_relevant_resume
  \/ _create_notifier_class_if_relevant_resume
  \/ start_interfaces_resume
  \/ \E instance \in InterfaceInstances \cup {None} : register_interface(instance)
  \/ \E instance \in NotifierInstances : register_notifier(instance)

SpecStart == Init /\ [][NextStart]_vars /\ WF_vars(start_resumed)

\* ---------------------------------------------------------------- start_MEV
\* risk is in tenths; << >> stands for an argument that was not given
StartupArgs ==
  { NoArgs,
    [NoArgs EXCEPT !.version = TRUE],
    [NoArgs EXCEPT !.encrypter = TRUE],
    [NoArgs EXCEPT !.backtesting = TRUE],
    [NoArgs EXCEPT !.simulate = TRUE],
    [NoArgs EXCEPT !.backtesting = TRUE, !.simulate = TRUE],
    [NoArgs EXCEPT !.risk = << 3 >>],
    [NoArgs EXCEPT !.risk = << 20 >>],
    [NoArgs EXCEPT !.update = TRUE],
    [NoArgs EXCEPT !.strategy_optimizer = TRUE] }

\* the tentacles folder, the tentacles manifest file and the constants read
\* from the environment
StartupEnvs ==
  [tentacles_folder : BOOLEAN, tentacles_config_file : BOOLEAN,
   IS_CLOUD_ENV : BOOLEAN, credentials : BOOLEAN]

\* the trader, simulator and backtesting sections a config file can hold
FileConfigs ==
  { [NoCfg EXCEPT !.trader_enabled = TRUE],
    [NoCfg EXCEPT !.simulator_enabled = TRUE] }

\* what the configuration manager and the commands can answer
init_config_outcomes == {"ok"}

set_default_profile_outcomes == {"ok", "NoProfileError"}

ensure_profile_outcomes == {"ok", "NoProfileError"}

config_health_check_outcomes ==
  {"ok", "ConfigEvaluatorError", "ConfigTradingError"}

\* the except clauses of start_MEV: one logged message, then os._exit(-1)
start_MEV_except(kind, done) ==
  /\ pc' = "exited"
  /\ failed' = kind
  /\ error_messages' = error_messages + 1
  /\ exit_status' = (-1) % 256
  /\ stages' = stages \o done

\* start_MEV up to the call of _create_startup_config
start_MEV ==
  /\ pc = "init"
  /\ \E starting_args \in StartupArgs, e \in StartupEnvs :
       /\ args' = starting_args
       /\ env' = e
       /\ IF starting_args.version
            THEN pc' = "returned" /\ stages' = stages
            ELSE pc' = "create_startup_config"
                 /\ stages' = stages \o << "init_logger" >>
  /\ UNCHANGED << is_first_startup, loaded, profile, cfg, outcomes, failed,
                  exit_status, error_messages >>
  /\ UNCHANGED << producerVars, evalVars >>

\* variant of _create_startup_config that reads the config on a first startup
\* as on any other
_create_startup_config_always_read ==
  /\ pc = "create_startup_config"
  /\ \E first \in BOOLEAN :
       /\ is_first_startup' = first
       /\ pc' = "read_config"
       /\ stages' = stages \o << "_create_startup_config" >>
       /\ UNCHANGED << loaded, profile, cfg >>
  /\ UNCHANGED << args, env, outcomes, failed, exit_status, error_messages >>
  /\ UNCHANGED << producerVars, evalVars >>

\* _create_startup_config up to the first startup test and, on a first
\* startup, to its return
_create_startup_config ==
  /\ pc = "create_startup_config"
  /\ \E first \in BOOLEAN :
       /\ is_first_startup' = first
       /\ IF first
            THEN \E outcome \in init_config_outcomes, l \in BOOLEAN,
                    file \in FileConfigs :
                   /\ outcome = "ok"
                   /\ loaded' = l
                   /\ profile' = l
                   /\ cfg' = IF l THEN file ELSE cfg
                   /\ pc' = "loaded_check"
                   /\ stages' = stages \o << "_create_startup_config",
                                             "init_config", "read" >>
            ELSE /\ pc' = "read_config"
                 /\ stages' = stages \o << "_create_startup_config" >>
                 /\ UNCHANGED << loaded, profile, cfg >>
  /\ UNCHANGED << args, env, outcomes, failed, exit_status, error_messages >>
  /\ UNCHANGED << producerVars, evalVars >>

\* variant of _repair_with_default_profile that is attempted again
_repair_with_default_profile_twice == << "repair", "repair" >>

\* the calls of one _repair_with_default_profile
_repair_with_default_profile == << "repair" >>

\* _read_config(config, logger); the configuration it rebuilds and reads again
\* after a repair is bound to its own local name and is lost at the return
_read_config ==
  /\ pc = "read_config"
  /\ \/ \E file \in FileConfigs :
          /\ loaded' = TRUE
          /\ profile' = TRUE
          /\ cfg' = file
          /\ pc' = "ensure_profile"
          /\ stages' = stages \o << "read" >>
          /\ UNCHANGED << failed, exit_status, error_messages >>
     \/ \E repair \in set_default_profile_outcomes :
          IF repair = "ok"
            THEN \E l \in BOOLEAN, file \in FileConfigs :
                   /\ loaded' = l
                   /\ profile' = TRUE
                   /\ cfg' = IF l THEN file ELSE cfg
                   /\ pc' = "ensure_profile"
                   /\ stages' = stages \o << "read" >>
                                       \o _repair_with_default_profile
                                       \o << "read_again" >>
                   /\ UNCHANGED << failed, exit_status, error_messages >>
            ELSE /\ start_MEV_except(repair, << "read" >>
                                        \o _repair_with_default_profile)
                 /\ UNCHANGED << loaded, profile, cfg >>
     \/ /\ start_MEV_except("ConfigError", << "read" >>)
        /\ UNCHANGED << loaded, profile, cfg >>
  /\ UNCHANGED << args, env, is_first_startup, outcomes >>
  /\ UNCHANGED << producerVars, evalVars >>

\* variant of reraised that propagates the error in any case
reraised_always(tentacles_folder) == TRUE

\* the except clause of _create_startup_config raises again only if the
\* tentacles folder is a directory
reraised(tentacles_folder) == tentacles_folder

\* commands.ensure_profile(config) and the except clause around it
ensure_profile ==
  /\ pc = "ensure_profile"
  /\ \E outcome \in ensure_profile_outcomes :
       \/ /\ outcome = "ok"
          /\ profile' = TRUE
          /\ pc' = "validate_config"
          /\ stages' = stages \o << "ensure_profile" >>
          /\ UNCHANGED << failed, exit_status, error_messages >>
       \/ /\ outcome = "NoProfileError"
          /\ profile' = FALSE
          /\ IF reraised(env.tentacles_folder)
               THEN start_MEV_except("NoProfileError", << "ensure_profile" >>)
               ELSE /\ pc' = "loaded_check"
                    /\ stages' = stages \o << "ensure_profile" >>
                    /\ UNCHANGED << failed, exit_status, error_messages >>
  /\ UNCHANGED << args, env, is_first_startup, loaded, cfg, outcomes >>
  /\ UNCHANGED << producerVars, evalVars >>

\* variant of _validate_config that returns when the migration failed
_validate_config_lenient ==
  /\ pc = "validate_config"
  /\ \E valid \in BOOLEAN, migrated \in BOOLEAN :
       /\ pc' = "loaded_check"
       /\ stages' = stages \o << "validate" >>
                     \o (IF valid THEN << >> ELSE
                         IF migrated THEN << "migrate:True" >>
                                     ELSE << "migrate:False" >>)
       /\ UNCHANGED << failed, exit_status, error_messages >>
  /\ UNCHANGED << args, env, is_first_startup, loaded, profile, cfg,
                  outcomes >>
  /\ UNCHANGED << producerVars, evalVars >>

\* _validate_config(config, logger) and the except clause around it
_validate_config ==
  /\ pc = "validate_config"
  /\ \E valid \in BOOLEAN, migrated \in BOOLEAN :
       \/ /\ valid /\ migrated
          /\ pc' = "loaded_check"
          /\ stages' = stages \o << "validate" >>
          /\ UNCHANGED << failed, exit_status, error_messages >>
       \/ /\ ~valid /\ migrated
          /\ pc' = "loaded_check"
          /\ stages' = stages \o << "validate", "migrate:True" >>
          /\ UNCHANGED << failed, exit_status, error_messages >>
       \/ /\ ~valid /\ ~migrated
          /\ IF reraised(env.tentacles_folder)
               THEN start_MEV_except("ConfigError",
                                     << "validate", "migrate:False" >>)
               ELSE /\ pc' = "loaded_check"
                    /\ stages' = stages \o << "validate", "migrate:False" >>
                    /\ UNCHANGED << failed, exit_status, error_messages >>
  /\ UNCHANGED << args, env, is_first_startup, loaded, profile, cfg,
                  outcomes >>
  /\ UNCHANGED << producerVars, evalVars >>

\* start_MEV from the return of _create_startup_config to the encrypter
is_loaded_check ==
  /\ pc = "loaded_check"
  /\ IF ~loaded
       THEN start_MEV_except("ConfigError", << "config.is_loaded" >>)
       ELSE /\ IF args.encrypter
                 THEN /\ pc' = "returned"
                      /\ stages' = stages \o << "config.is_loaded",
                                                "exchange_keys_encrypter" >>
                 ELSE /\ pc' = "update_config_with_args"
                      /\ stages' = stages \o << "config.is_loaded" >>
            /\ UNCHANGED << failed, exit_status, error_messages >>
  /\ UNCHANGED << args, env, is_first_startup, loaded, profile, cfg,
                  outcomes >>
  /\ UNCHANGED << producerVars, evalVars >>

\* variant of update_config_with_args that accepts a risk of 0
update_config_with_args_risk_from_zero(starting_args, c) ==
  LET backtested ==
        IF starting_args.backtesting
          THEN [c EXCEPT !.backtesting_enabled = TRUE,
                         !.trader_enabled = FALSE,
                         !.simulator_enabled = TRUE]
          ELSE c
      simulated ==
        IF starting_args.simulate
          THEN [backtested EXCEPT !.trader_enabled = FALSE,
                                  !.simulator_enabled = TRUE]
          ELSE backtested
  IN IF /\ starting_args.risk # << >>
        /\ 0 <= starting_args.risk[1]
        /\ starting_args.risk[1] <= 10
       THEN [simulated EXCEPT !.risk = starting_args.risk[1]]
       ELSE simulated

\* variant of update_config_with_args whose backtesting branch leaves the
\* trader as it is
update_config_with_args_trader_kept(starting_args, c) ==
  LET backtested ==
        IF starting_args.backtesting
          THEN [c EXCEPT !.backtesting_enabled = TRUE,
                         !.simulator_enabled = TRUE]
          ELSE c
      simulated ==
        IF starting_args.simulate
          THEN [backtested EXCEPT !.trader_enabled = FALSE,
                                  !.simulator_enabled = TRUE]
          ELSE backtested
  IN IF /\ starting_args.risk # << >>
        /\ 0 < starting_args.risk[1]
        /\ starting_args.risk[1] <= 10
       THEN [simulated EXCEPT !.risk = starting_args.risk[1]]
       ELSE simulated

\* variant of update_config_with_args that ignores simulate outside backtesting
update_config_with_args_simulate_ignored(starting_args, c) ==
  LET backtested ==
        IF starting_args.backtesting
          THEN [c EXCEPT !.backtesting_enabled = TRUE,
                         !.trader_enabled = FALSE,
                         !.simulator_enabled = TRUE]
          ELSE c
      simulated ==
        IF starting_args.simulate /\ starting_args.backtesting
          THEN [backtested EXCEPT !.trader_enabled = FALSE,
                                  !.simulator_enabled = TRUE]
          ELSE backtested
  IN IF /\ starting_args.risk # << >>
        /\ 0 < starting_args.risk[1]
        /\ starting_args.risk[1] <= 10
       THEN [simulated EXCEPT !.risk = starting_args.risk[1]]
       ELSE simulated

\* the config after update_config_with_args(starting_args, config, logger)
update_config_with_args(starting_args, c) ==
  LET backtested ==
        IF starting_args.backtesting
          THEN [c EXCEPT !.backtesting_enabled = TRUE,
                         !.trader_enabled = FALSE,
                         !.simulator_enabled = TRUE]
          ELSE c
      simulated ==
        IF starting_args.simulate
          THEN [backtested EXCEPT !.trader_enabled = FALSE,
                                  !.simulator_enabled = TRUE]
          ELSE backtested
  IN IF /\ starting_args.risk # << >>
        /\ 0 < starting_args.risk[1]
        /\ starting_args.risk[1] <= 10
       THEN [simulated EXCEPT !.risk = starting_args.risk[1]]
       ELSE simulated

\* start_MEV at the call of update_config_with_args
update_config_with_args_call ==
  /\ pc = "update_config_with_args"
  /\ \E imported \in BOOLEAN :
       IF imported
         THEN /\ cfg' = update_config_with_args(args, cfg)
              /\ pc' = "community"
              /\ stages' = stages \o << "update_config_with_args" >>
              /\ UNCHANGED << failed, exit_status, error_messages >>
         ELSE /\ start_MEV_except("ModuleNotFoundError",
                                  << "update_config_with_args" >>)
              /\ UNCHANGED cfg
  /\ UNCHANGED << args, env, is_first_startup, loaded, profile, outcomes >>
  /\ UNCHANGED << producerVars, evalVars >>

LoginFailures == {"AuthenticationError", "FailedAuthentication", "Exception"}

\* variant of reaches_async_init_account that gives up after any failed login
reaches_async_init_account_after_no_failure(login) ==
  login \in {"none", "ok"}

\* the second is_initialized test is reached: login was not attempted,
\* returned, or raised the AuthenticationError of the inner except clause
reaches_async_init_account(login) ==
  login \in {"none", "ok", "AuthenticationError"}

\* variant of caught_by_community_except without the last except clause
caught_by_community_except_failed_authentication_only(kind) ==
  kind = "FailedAuthentication"

\* the except clauses that end _get_authenticated_community_if_possible
caught_by_community_except(kind) ==
  kind \in {"FailedAuthentication", "Exception"}

\* community_auth, or None in backtesting
_get_authenticated_community_if_possible ==
  /\ pc = "community"
  /\ IF args.backtesting
       THEN /\ pc' = "tentacles"
            /\ UNCHANGED << stages, outcomes >>
       ELSE \E initialized \in BOOLEAN, login \in {"none", "ok"} \cup LoginFailures,
               still \in BOOLEAN,
               init \in {"none", "ok", "FailedAuthentication", "Exception"} :
              LET attempted == /\ ~initialized
                               /\ env.IS_CLOUD_ENV
                               /\ env.credentials
                  fallback == /\ ~initialized
                              /\ reaches_async_init_account(login)
                              /\ (login = "ok" => still)
                  raised == IF login \in LoginFailures \ {"AuthenticationError"}
                              THEN login
                              ELSE IF init \in {"FailedAuthentication", "Exception"}
                                     THEN init ELSE "none"
              IN /\ (login = "none") = ~attempted
                 /\ (init = "none") = ~fallback
                 /\ (login # "ok") => still
                 /\ outcomes' = [outcomes EXCEPT !.login = login,
                                                 !.async_init_account = init]
                 /\ stages' = stages
                     \o << "_get_authenticated_community_if_possible" >>
                     \o (IF attempted THEN << "login" >> ELSE << >>)
                     \o (IF fallback THEN << "async_init_account" >> ELSE << >>)
                 /\ pc' = IF raised = "none" \/ caught_by_community_except(raised)
                            THEN "tentacles" ELSE "crashed"
  /\ UNCHANGED << args, env, is_first_startup, loaded, profile, cfg, failed,
                  exit_status, error_messages >>
  /\ UNCHANGED << producerVars, evalVars >>

\* variant of tentacles_command that installs whatever it finds
tentacles_command_always_install(manifest) ==
  << "run_tentacles_install_or_update" >>

\* the command _load_or_create_tentacles runs, by the presence of the
\* tentacles manifest file
tentacles_command(manifest) ==
  IF manifest
    THEN << "run_update_or_repair_tentacles_if_necessary" >>
    ELSE << "run_tentacles_install_or_update" >>

\* variant of after_tentacles that never applies the forced configs
after_tentacles_never_forced(backtesting) == "health_check"

\* variant of after_tentacles that applies the forced configs in any mode
after_tentacles_always_forced(backtesting) == "forced_configs"

\* where start_MEV goes when _load_or_create_tentacles has returned
after_tentacles(backtesting) ==
  IF backtesting THEN "health_check" ELSE "forced_configs"

\* _load_or_create_tentacles(community_auth, config, logger)
_load_or_create_tentacles ==
  /\ pc = "tentacles"
  /\ stages' = stages \o << "_load_or_create_tentacles" >>
                       \o tentacles_command(env.tentacles_config_file)
  /\ pc' = after_tentacles(args.backtesting)
  /\ UNCHANGED << args, env, is_first_startup, loaded, profile, cfg, outcomes,
                  failed, exit_status, error_messages >>
  /\ UNCHANGED << producerVars, evalVars >>

\* the calls of _apply_community_startup_info_to_config for one answer of
\* get_startup_info
_apply_community_startup_info_to_config(startup_info) ==
  << "get_startup_info" >>
    \o (IF startup_info = "ok"
          THEN << "download_and_select_profile:startup_info" >> ELSE << >>)

\* _apply_forced_configs(community_auth, logger, config, is_first_startup)
_apply_forced_configs ==
  /\ pc = "forced_configs"
  /\ \E startup_info \in {"none", "ok", "BotError", "FailedAuthentication",
                          "Exception"} :
       /\ (startup_info = "none") = ~(env.IS_CLOUD_ENV /\ is_first_startup)
       /\ outcomes' = [outcomes EXCEPT !.get_startup_info = startup_info]
       /\ stages' = stages \o << "_apply_forced_configs" >>
            \o (IF startup_info = "none" THEN << >>
                ELSE _apply_community_startup_info_to_config(startup_info))
            \o << "download_and_select_profile:env" >>
  /\ pc' = "health_check"
  /\ UNCHANGED << args, env, is_first_startup, loaded, profile, cfg, failed,
                  exit_status, error_messages >>
  /\ UNCHANGED << producerVars, evalVars >>

\* configuration_manager.config_health_check(config, args.backtesting)
config_health_check ==
  /\ pc = "health_check"
  /\ \E outcome \in config_health_check_outcomes :
       IF outcome = "ok"
         THEN /\ pc' = "construct"
              /\ stages' = stages \o << "config_health_check" >>
              /\ UNCHANGED << failed, exit_status, error_messages >>
         ELSE start_MEV_except(outcome, << "config_health_check" >>)
  /\ UNCHANGED << args, env, is_first_startup, loaded, profile, cfg,
                  outcomes >>
  /\ UNCHANGED << producerVars, evalVars >>

\* variant of start_MEV_bot that goes on after a failed construction
start_MEV_bot_despite_error ==
  /\ pc = "construct"
  /\ \E imported \in BOOLEAN :
       /\ failed' = IF imported THEN failed ELSE "ModuleNotFoundError"
       /\ pc' = "run_bot"
       /\ stages' = stages \o << "bot", "set_global_bot_instance" >>
       /\ UNCHANGED << exit_status, error_messages >>
  /\ UNCHANGED << args, env, is_first_startup, loaded, profile, cfg,
                  outcomes >>
  /\ UNCHANGED << producerVars, evalVars >>

\* start_MEV from the construction of the bot to the update and strategy
\* optimizer commands
start_MEV_bot ==
  /\ pc = "construct"
  /\ \E imported \in BOOLEAN :
       IF ~imported
         THEN start_MEV_except("ModuleNotFoundError", << >>)
         ELSE /\ IF args.update
                   THEN /\ pc' = "returned"
                        /\ stages' = stages \o << "bot",
                             "set_global_bot_instance", "update_bot" >>
                   ELSE IF args.strategy_optimizer
                          THEN /\ pc' = "returned"
                               /\ stages' = stages \o << "bot",
                                    "set_global_bot_instance",
                                    "start_strategy_optimizer" >>
                          ELSE /\ pc' = "run_bot"
                               /\ stages' = stages \o << "bot",
                                    "set_global_bot_instance" >>
              /\ UNCHANGED << failed, exit_status, error_messages >>
  /\ UNCHANGED << args, env, is_first_startup, loaded, profile, cfg,
                  outcomes >>
  /\ UNCHANGED << producerVars, evalVars >>

\* commands.run_bot(bot, logger)
run_bot ==
  /\ pc = "run_bot"
  /\ pc' = "running"
  /\ stages' = stages \o << "run_bot" >>
  /\ UNCHANGED << args, env, is_first_startup, loaded, profile, cfg, outcomes,
                  failed, exit_status, error_messages >>
  /\ UNCHANGED << producerVars, evalVars >>

NextStartup ==
  \/ start_MEV
  \/ _create_startup_config
  \/ _read_config
  \/ ensure_profile
  \/ _validate_config
  \/ is_loaded_check
  \/ update_config_with_args_call
  \/ _get_authenticated_community_if_possible
  \/ _load_or_create_tentacles
  \/ _apply_forced_configs
  \/ config_health_check
  \/ start_MEV_bot
  \/ run_bot

SpecStartup == Init /\ [][NextStartup]_vars

\* ------------------------------------------- update_config_with_args alone
\* risk overrides in tenths, from below 0 to above 1
OverrideArgs ==
  { [NoArgs EXCEPT !.backtesting = b, !.simulate = sim, !.risk = r] :
      b \in BOOLEAN, sim \in BOOLEAN,
      r \in {<< >>} \cup {<< x >> : x \in (0 - MaxRisk)..MaxRisk} }

PriorRisks == {0, 5, MaxRisk + 1}

\* the sections of a loaded config before the overrides
PriorConfigs ==
  [trader_enabled : BOOLEAN, simulator_enabled : BOOLEAN,
   backtesting_enabled : BOOLEAN, risk : PriorRisks]

\* start_MEV at line 272 with a loaded config
InitArgs ==
  /\ config \in StartupConfigs
  /\ InitProducer
  /\ candidate = interface_list[1]
  /\ relevance = NotEvaluated
  /\ pc = "args"
  /\ args \in OverrideArgs
  /\ env = NoEnv
  /\ is_first_startup = FALSE
  /\ loaded = TRUE
  /\ profile = TRUE
  /\ cfg \in PriorConfigs
  /\ stages = << >>
  /\ outcomes = NoOutcomes
  /\ failed = "none"
  /\ exit_status = 0
  /\ error_messages = 0

\* update_config_with_args(args, config, logger)
update_config_with_args_apply ==
  /\ pc = "args"
  /\ cfg' = update_config_with_args(args, cfg)
  /\ pc' = "args_applied"
  /\ stages' = stages \o << "update_config_with_args" >>
  /\ UNCHANGED << args, env, is_first_startup, loaded, profile, outcomes,
                  failed, exit_status, error_messages >>
  /\ UNCHANGED << producerVars, evalVars >>

\* update_config_with_args applied to its own result
update_config_with_args_again ==
  /\ pc = "args_applied"
  /\ cfg' = update_config_with_args(args, cfg)
  /\ pc' = "args_applied_twice"
  /\ stages' = stages \o << "update_config_with_args" >>
  /\ UNCHANGED << args, env, is_first_startup, loaded, profile, outcomes,
                  failed, exit_status, error_messages >>
  /\ UNCHANGED << producerVars, evalVars >>

NextArgs ==
  \/ update_config_with_args_apply
  \/ update_config_with_args_again

SpecArgs == InitArgs /\ [][NextArgs]_vars


\* ------------------------------------------------------------ properties
Registered == interfaces \o notifiers

TotalSent(inst, h) == sent["broadcast"][inst][h] + sent["replay"][inst][h]

\* the register_notifier calls so far were made one after the other, each
\* with its own instance, after start() had published its last request
SerialNotifierCalls ==
  ~earlyNotif /\ ~notifOverlap /\ NoDuplicates(notifiers)

\* C1: with N >= 1 eligible notifiers and non-overlapping register_notifier
\* calls of distinct instances made after start() finished publishing, the
\* flush is invoked exactly once, in the N-th call: not before the N-th call
\* has run to its end, and not again in any later call.
C1_FlushOnceInNthCall ==
  (EligibleNotifiers >= 1 /\ SerialNotifierCalls)
    => /\ notifDone < EligibleNotifiers => flushes = << >>
       /\ notifDone >= EligibleNotifiers => flushes = << EligibleNotifiers >>

C1_Witness ==
  /\ EligibleNotifiers = 2
  /\ SerialNotifierCalls
  /\ notifDone = 3
  /\ flushes = << 2 >>

\* C2: the flush never fires while fewer than N notifiers have registered,
\* N being the number of eligible notifier descriptors, also when
\* register_notifier runs while start() is still publishing.
C2_NoFlushBeforeAllRegistered ==
  flushes # << >> => Len(notifiers) >= EligibleNotifiers

\* C3: N distinct notifiers registering in any interleaving, after start()
\* finished publishing, produce exactly one flush.
C3_FlushOnceUnderOverlap ==
  (EligibleNotifiers >= 1 /\ ~earlyNotif /\ NoDuplicates(notifiers))
    => /\ Len(flushes) <= 1
       /\ (Len(notifiers) = EligibleNotifiers /\ notifDone = EligibleNotifiers)
            => Len(flushes) = 1

\* C4: when register_exchange overlaps register_interface / register_notifier
\* calls, every (instance, handle) pair still gets exactly one
\* exchange-registration message: never two, and one once the instance's
\* registration and the handle's broadcast have both returned.
C4_ExactlyOnceUnderOverlap ==
  NoDuplicates(Registered)
    => \A inst \in Instances, h \in Handles :
         /\ TotalSent(inst, h) <= 1
         /\ (/\ inst \in Range(Registered)
             /\ reg[inst].pc = "idle"
             /\ bcast[h].pc = "done") => TotalSent(inst, h) = 1

C6_NoFlushWithoutEligibleNotifier ==
  EligibleNotifiers = 0 => flushes = << >>

C6_Witness ==
  /\ EligibleNotifiers = 0
  /\ startPc = "done"
  /\ notifDone >= 2
  /\ exchange_manager_ids # << >>

\* C7: register_interface is idempotent: an instance registered twice has
\* one entry in the live interface list, and a register_exchange sends it a
\* handle once.
C7_RegisterInterfaceIdempotent ==
  \A inst \in InterfaceInstances :
    /\ Occurrences(interfaces, inst) <= 1
    /\ \A h \in Handles : sent["broadcast"][inst][h] <= 1

\* C8: no notifier instance is counted twice toward N: the flush does not
\* fire before N distinct notifiers have registered.
C8_NoDoubleCount ==
  (~earlyNotif /\ ~notifOverlap /\ flushes # << >>)
    => Cardinality(Range(notifiers)) >= EligibleNotifiers

\* C9: no broadcast of register_exchange sends a message to an instance that
\* is in the live list while its own registration call is still replaying
\* the handles seen so far.
C9_NoBroadcastToHalfRegistered ==
  [][\A inst \in Instances :
       reg[inst].pc = "replay"
         => sent'["broadcast"][inst] = sent["broadcast"][inst]]_vars

\* C10: after stop() has completed, no interface it signalled is left in the
\* live interface list, and no notifier was signalled to stop.
C10_StopClearsLiveSet ==
  stopPc = "done"
    => /\ \A inst \in stopped : inst \notin Range(interfaces)
       /\ stopped \cap NotifierInstances = {}

\* C11: start(), once called, terminates when its creation requests are
\* published, whether or not any plugin registers: it never waits for the
\* number of registered instances to reach the number of requests.
C11_StartTerminates == (startPc # "idle") ~> (startPc = "done")

C11_Witness ==
  /\ startPc = "done"
  /\ PublishedRequests >= 3
  /\ interfaces = << >>
  /\ notifiers = << >>
  /\ calls = 0

ServicesEnabled(class) == class.REQUIRED_SERVICES \subseteq config.services

\* C12: _is_interface_relevant is true exactly when the plugin is enabled,
\* activated, has every required service enabled and, under backtesting,
\* supports backtesting; it is false whenever a required service is disabled.
C12_InterfaceRelevance ==
  relevance.evaluated
    => /\ relevance.interface
            = (/\ candidate.enabled
               /\ candidate.name \in config.activated
               /\ ServicesEnabled(candidate)
               /\ (config.backtesting => candidate.enabled_in_backtesting))
       /\ ~ServicesEnabled(candidate) => ~relevance.interface

C12_Witness ==
  /\ relevance.evaluated
  /\ relevance.interface
  /\ config.backtesting
  /\ candidate.REQUIRED_SERVICES = Services

\* C13: _is_notifier_relevant is true exactly when the plugin is enabled in
\* the config, activated, has every required service enabled and backtesting
\* is off; under backtesting start() publishes no notifier request and the
\* counter N stays 0.
C13_NotifierRelevance ==
  /\ relevance.evaluated
       => relevance.notifier
            = (/\ candidate.name \in config.notification_types
               /\ candidate.name \in config.activated
               /\ ServicesEnabled(candidate)
               /\ ~config.backtesting)
  /\ config.backtesting
       => /\ to_create_notifiers_count = 0
          /\ \A c \in NotifierNames : created[c] = 0

C13_Witness ==
  /\ config.backtesting
  /\ startPc = "done"
  /\ relevance.evaluated
  /\ candidate.name \in config.notification_types \cap config.activated
  /\ candidate.REQUIRED_SERVICES = Services
  /\ ServicesEnabled(candidate)
  /\ ~relevance.notifier

\* C14: when start() has completed, one creation request was published for
\* each eligible interface descriptor and each eligible notifier descriptor,
\* none for an ineligible one, and N is the number of notifier requests
\* published.
C14_OneRequestPerEligibleDescriptor ==
  startPc = "done"
    => /\ \A k \in 1..Len(interface_list) :
            created[interface_list[k].name]
              = IF _is_interface_relevant(interface_list[k], config.backtesting)
                  THEN 1 ELSE 0
       /\ \A k \in 1..Len(notifier_list) :
            created[notifier_list[k].name]
              = IF _is_notifier_relevant(notifier_list[k], config.backtesting)
                  THEN 1 ELSE 0
       /\ to_create_notifiers_count
            = Cardinality({c \in NotifierNames : created[c] > 0})

C14_Witness ==
  /\ startPc = "done"
  /\ to_create_notifiers_count = 2
  /\ created["ic1"] = 1
  /\ created["ic2"] = 0

called(x) == x \in Range(stages)

ConfigLoadingFailed == pc = "exited" /\ ~called("update_config_with_args")

\* C15 as stated: after the one repair, startup proceeds with the default
\* profile selected or ends in the NoProfileError failure, and nothing else.
C15_Original ==
  called("repair")
    => /\ Occurrences(stages, "repair") = 1
       /\ ConfigLoadingFailed => failed = "NoProfileError"
       /\ called("config.is_loaded") /\ pc # "exited" => profile

\* C15: when the first read raises NoProfileError the default-profile repair
\* runs exactly once and never a second time; afterwards config loading
\* returns to start_MEV (with the default profile selected unless the tentacles
\* folder is absent), or ends in the NoProfileError failure, or ends in the
\* ConfigError failure.
C15_RepairOnce ==
  called("repair")
    => /\ Occurrences(stages, "repair") = 1
       /\ ConfigLoadingFailed => failed \in {"NoProfileError", "ConfigError"}
       /\ called("config.is_loaded") /\ ~profile => ~env.tentacles_folder

C15_Witness ==
  /\ called("repair")
  /\ called("read_again")
  /\ profile
  /\ pc = "running"

\* C16 as stated: a failed validation with a failed migration always ends in
\* the ConfigError failure and plugin resolution never runs.
C16_Original ==
  /\ called("migrate:False")
       => /\ pc = "exited"
          /\ failed = "ConfigError"
          /\ exit_status # 0
          /\ ~called("_load_or_create_tentacles")
  /\ called("migrate:True") /\ failed # "none" => called("config.is_loaded")

\* C16: if validation fails, migration fails and the tentacles folder exists,
\* startup ends in the fatal ConfigError state (non-zero exit) and plugin
\* resolution never runs; if migration succeeds, startup continues.
C16_InvalidConfigFatalWithTentacles ==
  /\ called("migrate:False") /\ env.tentacles_folder
       => /\ pc = "exited"
          /\ failed = "ConfigError"
          /\ exit_status # 0
          /\ ~called("_load_or_create_tentacles")
  /\ called("migrate:True") /\ failed # "none" => called("config.is_loaded")

C16_Witness ==
  /\ called("migrate:False")
  /\ env.tentacles_folder
  /\ pc = "exited"
  /\ failed = "ConfigError"

\* C17: on a first startup the default configuration is created, the flag is
\* true, config loading raises nothing, and no repair, profile-ensure,
\* validation or migration is attempted.
C17_FirstRunPath ==
  /\ is_first_startup
       => /\ called("init_config")
          /\ \A x \in {"repair", "read_again", "ensure_profile", "validate",
                       "migrate:True", "migrate:False"} : ~called(x)
          /\ failed # "none" => called("config.is_loaded")
  /\ called("init_config") => is_first_startup

C17_Witness ==
  /\ is_first_startup
  /\ called("init_config")
  /\ pc = "running"

SessionFailed ==
  \/ outcomes.login \in LoginFailures
  \/ outcomes.async_init_account \in {"FailedAuthentication", "Exception"}

StartupInfoFailed ==
  outcomes.get_startup_info \in {"BotError", "FailedAuthentication", "Exception"}

\* C18: a failed token login, cached-session initialization or startup-info
\* fetch is never raised to start_MEV, and startup goes on to plugin
\* resolution and the health check.
C18_SessionFailureNotFatal ==
  /\ pc # "crashed"
  /\ SessionFailed
       => /\ pc # "tentacles" => called("_load_or_create_tentacles")
          /\ pc \notin {"tentacles", "forced_configs", "health_check"}
               => called("config_health_check")
  /\ StartupInfoFailed
       => (pc # "health_check" => called("config_health_check"))

C18_Witness ==
  /\ outcomes.login = "Exception"
  /\ StartupInfoFailed
  /\ pc = "running"

\* C19 as stated: after any failed token login, async_init_account is
\* attempted.
C19_Original ==
  outcomes.login \in LoginFailures => called("async_init_account")

\* C19: after a token login that failed with AuthenticationError,
\* async_init_account is attempted next in the same startup; after one that
\* failed with FailedAuthentication or another exception it is not.
C19_FallbackAfterAuthenticationError ==
  /\ outcomes.login = "AuthenticationError"
       => /\ called("async_init_account")
          /\ outcomes.async_init_account # "none"
  /\ outcomes.login \in LoginFailures \ {"AuthenticationError"}
       => /\ ~called("async_init_account")
          /\ outcomes.async_init_account = "none"

C19_Witness ==
  /\ outcomes.login = "AuthenticationError"
  /\ outcomes.async_init_account = "ok"
  /\ pc = "running"

\* C20: every fatal startup error ends the process with a non-zero exit
\* status after one message of the except clause, the bot is neither
\* constructed nor run, and nothing happens after the exit.
C20_FatalErrorExits ==
  [][/\ pc # "exited"
     /\ failed' # "none"
          => /\ failed' \in {"ConfigError", "NoProfileError",
                             "ConfigEvaluatorError", "ConfigTradingError",
                             "ModuleNotFoundError"}
             /\ pc' = "exited"
             /\ exit_status' # 0
             /\ error_messages' = 1
             /\ "bot" \notin Range(stages')
             /\ "run_bot" \notin Range(stages')]_vars

C20_Witness ==
  /\ pc = "exited"
  /\ failed = "ModuleNotFoundError"
  /\ called("config_health_check")
  /\ exit_status = 255

\* the stages of a startup, by the call that opens each
StartupStages ==
  {"_create_startup_config", "config.is_loaded", "update_config_with_args",
   "_get_authenticated_community_if_possible", "_load_or_create_tentacles",
   "_apply_forced_configs", "config_health_check", "bot"}

IsStartupStage(x) == x \in StartupStages

\* the first position of a call in the history, 0 when it was not made
Position(x) ==
  IF called(x) THEN Min({k \in 1..Len(stages) : stages[k] = x}) ELSE 0

Before(x, y) == called(x) /\ called(y) /\ Position(x) < Position(y)

\* C21: a startup that constructs the bot went through config load,
\* loaded-check, argument overrides, session acquisition (not in backtesting),
\* plugin resolution, forced configs (not in backtesting), health check and
\* construction, in this order and once each; the health check returned
\* without error; nothing follows a failure.
C21_StagesInOrder ==
  [][/\ pc # "exited"
     /\ "bot" \in Range(stages')
          => /\ SelectSeq(stages', IsStartupStage)
                  = << "_create_startup_config", "config.is_loaded",
                       "update_config_with_args" >>
                    \o (IF args'.backtesting THEN << >>
                        ELSE << "_get_authenticated_community_if_possible" >>)
                    \o << "_load_or_create_tentacles" >>
                    \o (IF args'.backtesting THEN << >>
                        ELSE << "_apply_forced_configs" >>)
                    \o << "config_health_check", "bot" >>
             /\ failed' = "none"]_vars

C21_Witness ==
  /\ pc = "running"
  /\ ~args.backtesting
  /\ called("repair")
  /\ called("_apply_forced_configs")

\* C22: plugin resolution runs exactly one of install (manifest absent) and
\* update-or-repair (manifest present), before the forced configs and before
\* the health check.
C22_InstallOrRepairBeforeForcedConfigs ==
  /\ called("_load_or_create_tentacles")
       => /\ Occurrences(stages, "run_tentacles_install_or_update")
               = (IF env.tentacles_config_file THEN 0 ELSE 1)
          /\ Occurrences(stages, "run_update_or_repair_tentacles_if_necessary")
               = (IF env.tentacles_config_file THEN 1 ELSE 0)
          /\ Occurrences(stages, "_load_or_create_tentacles") = 1
  /\ called("_apply_forced_configs")
       => Before("_load_or_create_tentacles", "_apply_forced_configs")
  /\ called("config_health_check")
       => Before("_load_or_create_tentacles", "config_health_check")

C22_Witness ==
  /\ called("run_update_or_repair_tentacles_if_necessary")
  /\ called("_apply_forced_configs")
  /\ called("config_health_check")

\* C25: a backtesting startup applies no forced config and never calls
\* download_and_select_profile; a startup that is not one applies the profiles
\* of the environment exactly once, after plugin resolution and before the
\* health check.
C25_ForcedConfigsOutsideBacktestingOnly ==
  /\ args.backtesting
       => \A x \in {"_apply_forced_configs", "get_startup_info",
                    "download_and_select_profile:startup_info",
                    "download_and_select_profile:env"} : ~called(x)
  /\ ~args.backtesting /\ called("config_health_check")
       => /\ Occurrences(stages, "download_and_select_profile:env") = 1
          /\ Before("_load_or_create_tentacles",
                    "download_and_select_profile:env")
          /\ Before("download_and_select_profile:env", "config_health_check")

C25_Witness ==
  /\ args.backtesting
  /\ env.IS_CLOUD_ENV
  /\ is_first_startup
  /\ pc = "running"

FirstApplication == pc = "args" /\ pc' = "args_applied"

SecondApplication == pc = "args_applied" /\ pc' = "args_applied_twice"

\* C23: update_config_with_args sets the trading risk to r exactly when an
\* override r with 0 < r <= 1 is given; when r is absent, r <= 0 or r > 1 the
\* prior risk is unchanged (risk in tenths, 10 is 1).
C23_RiskOverrideInRange ==
  [][FirstApplication
       => /\ args.risk # << >> /\ 0 < args.risk[1] /\ args.risk[1] <= 10
               => cfg'.risk = args.risk[1]
          /\ args.risk = << >> => cfg'.risk = cfg.risk
          /\ args.risk # << >> /\ (args.risk[1] <= 0 \/ args.risk[1] > 10)
               => cfg'.risk = cfg.risk]_vars

C23_Witness ==
  /\ pc = "args_applied"
  /\ args.risk = << 10 >>
  /\ cfg.risk = 10

\* C24: with the backtesting argument, update_config_with_args leaves the
\* trader disabled, the simulator and backtesting enabled whatever they were,
\* and a second application changes nothing.
C24_BacktestingForcesSimulator ==
  [][args.backtesting
       => /\ FirstApplication
               => /\ ~cfg'.trader_enabled
                  /\ cfg'.simulator_enabled
                  /\ cfg'.backtesting_enabled
          /\ SecondApplication => cfg' = cfg]_vars

C24_Witness ==
  /\ pc = "args_applied_twice"
  /\ args.backtesting
  /\ ~args.simulate
  /\ ~cfg.trader_enabled
  /\ cfg.simulator_enabled
  /\ cfg.backtesting_enabled

\* C29: without backtesting and simulate, update_config_with_args leaves
\* trader.enabled, simulator.enabled and backtesting.enabled as they were; with
\* simulate alone it disables the trader, enables the simulator and leaves
\* backtesting.enabled as it was.
C29_SimulateFrame ==
  [][FirstApplication /\ ~args.backtesting
       => /\ ~args.simulate
               => /\ cfg'.trader_enabled = cfg.trader_enabled
                  /\ cfg'.simulator_enabled = cfg.simulator_enabled
                  /\ cfg'.backtesting_enabled = cfg.backtesting_enabled
          /\ args.simulate
               => /\ ~cfg'.trader_enabled
                  /\ cfg'.simulator_enabled
                  /\ cfg'.backtesting_enabled = cfg.backtesting_enabled]_vars

C29_Witness ==
  /\ pc = "args_applied"
  /\ args.simulate
  /\ ~args.backtesting
  /\ cfg.backtesting_enabled
  /\ ~cfg.trader_enabled
  /\ cfg.simulator_enabled

InterfaceRequests ==
  created[interface_list[1].name] + created[interface_list[2].name]

\* C26: when start() has completed with an interface that did not start or
\* did not register, the log names the missing interfaces.
C26_MissingInterfacesLogged ==
  startPc = "done" /\ Len(interfaces) < InterfaceRequests => errorLog # {}

EnsureProfileRaised ==
  called("ensure_profile") /\ ~called("validate") /\ pc # "validate_config"

\* C27: a NoProfileError of ensure_profile or a ConfigError of
\* _validate_config on a non-first startup is fatal when the tentacles folder
\* exists; when it does not, _create_startup_config returns and startup goes
\* on to the loaded-check and to the tentacles.
C27_ErrorSwallowedWithoutTentacles ==
  EnsureProfileRaised \/ called("migrate:False")
    => /\ ~is_first_startup
       /\ IF env.tentacles_folder
            THEN /\ pc = "exited"
                 /\ failed = (IF EnsureProfileRaised THEN "NoProfileError"
                                                     ELSE "ConfigError")
                 /\ ~called("config.is_loaded")
            ELSE /\ pc = "loaded_check" \/ called("config.is_loaded")
                 /\ failed # "none" => called("config.is_loaded")
                 /\ pc \in {"run_bot", "running"}
                      => called("_load_or_create_tentacles")

C27_Witness ==
  /\ ~env.tentacles_folder
  /\ called("migrate:False")
  /\ called("run_tentacles_install_or_update")
  /\ pc = "running"

\* C28: register_interface(None) changes neither the interface list, the
\* notifier list nor N, sends no exchange-registration message and flushes
\* nothing, whatever the state of the producer.
C28_RegisterNoneChangesNothing ==
  [][register_interface(None)
       => UNCHANGED << interfaces, notifiers, to_create_notifiers_count,
                       sent, flushes, exchange_manager_ids >>]_vars

C28_Witness ==
  /\ calls = 3
  /\ Len(exchange_manager_ids) = 1
  /\ Len(interfaces) = 1
  /\ notifiers = << >>
  /\ \E inst \in InterfaceInstances, h \in Handles : TotalSent(inst, h) > 0

====
